---- MODULE Spec2Model ----
(***************************************************************************)
(* The MCP stdio mock server (src/src-tauri/tests/resources/               *)
(* mcp_mock_server.py) as a state machine.                                 *)
(*                                                                         *)
(* Python values are tagged records: None, Str(s), Num(n), List(l) and     *)
(* Dict(d), d a function from key strings to values.  A text (one line of  *)
(* standard input, or the value of a JSON environment setting) is          *)
(* represented by what json.loads makes of it: the empty text, a text that *)
(* is no JSON document (with the decoder's diagnostic), or a JSON document *)
(* for a value.  A line of standard output is represented by the JSON      *)
(* document json.dumps writes, i.e. by the response object itself.         *)
(***************************************************************************)
EXTENDS Integers, Sequences, FiniteSets, TLC

VARIABLES
    pc,             \* position of main(): see PcValues
    responses,      \* main's local `responses`
    errors,         \* main's local `errors`
    delay_seconds,  \* main's local `delay_seconds`
    hang_forever,   \* main's local `hang_forever`
    consumed,       \* the raw lines `for line in sys.stdin` has yielded so far
    line,           \* the loop's local `line` (stripped), NoText between lines
    method,         \* process_request's local `method`
    req_id,         \* process_request's local `req_id`
    response,       \* the value process_request returned, not yet printed
    stdout,         \* the lines written to standard output
    stderr,         \* the lines written to standard error
    clock,          \* wall-clock time, in seconds
    read_at,        \* the clock when the current line was read
    log,            \* per stdout line: the input line it answers and the
                    \* clock at the read and at the write
    trace,          \* per consumed line: the clock at the read and the number
                    \* of time.sleep calls made for it
    pending,        \* lines the client has written and the loop has not taken
    closed          \* the client has closed the input stream

vars == <<pc, responses, errors, delay_seconds, hang_forever, consumed, line,
          method, req_id, response, stdout, stderr, clock, read_at, log,
          trace, pending, closed>>

(***************************************************************************)
(* Bounds of the model.                                                    *)
(***************************************************************************)
MaxLines == 2       \* input lines supplied before end-of-stream
MaxHangSleeps == 2  \* iterations of the hang loop that are followed

(***************************************************************************)
(* Python values.                                                          *)
(***************************************************************************)
None == [t |-> "null"]
Str(s) == [t |-> "str", s |-> s]
Num(n) == [t |-> "num", n |-> n]
List(l) == [t |-> "list", l |-> l]
Dict(d) == [t |-> "dict", d |-> d]
EmptyDict == Dict([k \in {} |-> None])

(***************************************************************************)
(* Texts.                                                                  *)
(***************************************************************************)
EmptyText == [k |-> "empty"]
Garbage(diag) == [k |-> "garbage", s |-> diag]
JsonText(v) == [k |-> "json", v |-> v]
NoText == [k |-> "none"]
Unset == [k |-> "unset"]

\* json.loads: the decoded value, or JSONDecodeError with its diagnostic.
json_loads(text) ==
    IF text.k = "json" THEN [ok |-> TRUE, value |-> text.v]
    ELSE IF text.k = "garbage" THEN [ok |-> FALSE, msg |-> text.s]
    ELSE [ok |-> FALSE, msg |-> "Expecting value: line 1 column 1 (char 0)"]

\* str.lower(), on the ASCII letters.
UpperLetters == "ABCDEFGHIJKLMNOPQRSTUVWXYZ"
LowerLetters == "abcdefghijklmnopqrstuvwxyz"
LowerChar(c) ==
    IF \E i \in 1..26 : SubSeq(UpperLetters, i, i) = c
    THEN LET i == CHOOSE j \in 1..26 : SubSeq(UpperLetters, j, j) = c
         IN SubSeq(LowerLetters, i, i)
    ELSE c
RECURSIVE lower(_)
lower(s) ==
    IF s = "" THEN ""
    ELSE LowerChar(SubSeq(s, 1, 1)) \o lower(SubSeq(s, 2, Len(s)))

\* int(): an optional sign and decimal digits, ValueError otherwise.
Digits == "0123456789"
IsDigit(c) == \E i \in 1..10 : SubSeq(Digits, i, i) = c
DigitValue(c) == (CHOOSE i \in 1..10 : SubSeq(Digits, i, i) = c) - 1
RECURSIVE DigitsValue(_)
DigitsValue(s) ==
    IF s = "" THEN 0
    ELSE 10 * DigitsValue(SubSeq(s, 1, Len(s) - 1))
         + DigitValue(SubSeq(s, Len(s), Len(s)))
AllDigits(s) == Len(s) > 0 /\ \A i \in 1..Len(s) : IsDigit(SubSeq(s, i, i))
int(s) ==
    LET signed == Len(s) > 0 /\ SubSeq(s, 1, 1) \in {"-", "+"}
        body == IF signed THEN SubSeq(s, 2, Len(s)) ELSE s
    IN IF ~AllDigits(body) THEN [ok |-> FALSE, value |-> 0]
       ELSE [ok |-> TRUE,
             value |-> IF signed /\ SubSeq(s, 1, 1) = "-"
                       THEN 0 - DigitsValue(body) ELSE DigitsValue(body)]

(***************************************************************************)
(* The environment main() can be started in.                               *)
(***************************************************************************)
ResponsesObject == Dict([ping |-> Str("pong"), both |-> List(<<Num(1)>>)])
ErrorsObject ==
    Dict([fail |-> List(<<Num(123), Str("boom")>>),
          both |-> Dict([code |-> Num(7)])])
JsonSettings(object) ==
    {Unset, EmptyText, Garbage("{bad"), JsonText(object), JsonText(None),
     JsonText(List(<<Str("ping")>>))}
DelaySettings == {Unset, Str("abc"), Str("2")}
HangSettings == {Unset, Str("TRUE"), Str("no")}
Environments ==
    [MCP_MOCK_RESPONSES : JsonSettings(ResponsesObject),
     MCP_MOCK_ERRORS : JsonSettings(ErrorsObject),
     MCP_MOCK_DELAY : DelaySettings,
     MCP_MOCK_HANG : HangSettings]

\* os.environ.get(name, default)
environ_get(setting, default) == IF setting = Unset THEN default ELSE setting

\* load_config's handling of one JSON setting: the value and the diagnostics.
load_json_setting(setting, name) ==
    LET text == environ_get(setting, JsonText(EmptyDict))
        parsed == json_loads(text)
    IN IF text = EmptyText THEN [value |-> EmptyDict, diag |-> <<>>]
       ELSE IF parsed.ok THEN [value |-> parsed.value, diag |-> <<>>]
       ELSE [value |-> EmptyDict,
             diag |-> <<"ERROR: Invalid " \o name \o " JSON">>]

load_config(env) ==
    LET r == load_json_setting(env.MCP_MOCK_RESPONSES, "MCP_MOCK_RESPONSES")
        e == load_json_setting(env.MCP_MOCK_ERRORS, "MCP_MOCK_ERRORS")
        delay_str == environ_get(env.MCP_MOCK_DELAY, Str("0")).s
        d == int(delay_str)
        hang == environ_get(env.MCP_MOCK_HANG, Str("")).s
    IN [responses |-> r.value,
        errors |-> e.value,
        delay_seconds |-> IF d.ok THEN d.value ELSE 0,
        hang_forever |-> lower(hang) \in {"1", "true", "yes"},
        diag |-> r.diag \o e.diag \o
                 (IF d.ok THEN <<>>
                  ELSE <<"ERROR: Invalid MCP_MOCK_DELAY value: " \o delay_str>>)]

Init ==
    /\ pc = "start"
    /\ responses = EmptyDict
    /\ errors = EmptyDict
    /\ delay_seconds = 0
    /\ hang_forever = FALSE
    /\ consumed = <<>>
    /\ line = NoText
    /\ method = None
    /\ req_id = None
    /\ response = None
    /\ stdout = <<>>
    /\ stderr = <<>>
    /\ clock = 0
    /\ read_at = 0
    /\ log = <<>>
    /\ trace = <<>>
    /\ pending = <<>>
    /\ closed = FALSE

\* len() is defined on dict, list and str; TypeError on None and on numbers.
HasLen(v) == v.t \in {"dict", "list", "str"}
len(v) ==
    IF v.t = "dict" THEN Cardinality(DOMAIN v.d)
    ELSE IF v.t = "list" THEN Len(v.l)
    ELSE Len(v.s)

\* main(), from its start to the serving loop or the hang loop, started in
\* one of the environments envs.
StartupFrom(envs) ==
    /\ pc = "start"
    /\ \E env \in envs :
        LET cfg == load_config(env)
            banner == cfg.diag \o <<"MCP Mock Server starting...">>
        IN /\ responses' = cfg.responses
           /\ errors' = cfg.errors
           /\ delay_seconds' = cfg.delay_seconds
           /\ hang_forever' = cfg.hang_forever
           /\ IF ~HasLen(cfg.responses)
              THEN /\ pc' = "crashed"
                   /\ stderr' = banner \o <<"TypeError">>
              ELSE IF ~HasLen(cfg.errors)
              THEN /\ pc' = "crashed"
                   /\ stderr' = banner \o
                        <<"Responses: " \o ToString(len(cfg.responses)) \o " methods",
                          "TypeError">>
              ELSE /\ pc' = IF cfg.hang_forever THEN "hanging" ELSE "serve"
                   /\ stderr' = banner \o
                        <<"Responses: " \o ToString(len(cfg.responses)) \o " methods",
                          "Errors: " \o ToString(len(cfg.errors)) \o " methods",
                          "Delay: " \o ToString(cfg.delay_seconds) \o "s",
                          "Hang: " \o (IF cfg.hang_forever THEN "True" ELSE "False")>>
                        \o (IF cfg.hang_forever THEN <<"HANGING FOREVER">> ELSE <<>>)
    /\ UNCHANGED <<consumed, line, method, req_id, response, stdout, clock,
                   read_at, log>>
    /\ UNCHANGED <<trace, pending, closed>>

Startup == StartupFrom(Environments)

(***************************************************************************)
(* The lines a client can send.  A raw line is a text with or without      *)
(* surrounding whitespace (the newline that ends it, at least);            *)
(* str.strip() removes the whitespace.                                     *)
(***************************************************************************)
RawLine(text) == [pad |-> FALSE, text |-> text]
Padded(text) == [pad |-> TRUE, text |-> text]
strip(raw) == raw.text

Request(fields) == RawLine(JsonText(Dict(fields)))
Lines ==
    {Padded(EmptyText),
     RawLine(Garbage("Expecting value: line 1 column 1 (char 0)")),
     RawLine(JsonText(Num(42))),
     Request([jsonrpc |-> Str("2.0"), id |-> Num(1), method |-> Str("ping")]),
     Request([jsonrpc |-> Str("2.0"), id |-> Str("a"), method |-> Str("fail")]),
     Request([jsonrpc |-> Str("2.0"), id |-> Num(2), method |-> Str("both")]),
     Request([jsonrpc |-> Str("2.0"), id |-> Num(2), method |-> Str("nope")]),
     Request([jsonrpc |-> Str("2.0"), id |-> Num(3)]),
     Request([jsonrpc |-> Str("2.0"), id |-> Num(4), method |-> Num(5)]),
     Request([jsonrpc |-> Str("2.0"), id |-> Num(1), method |-> List(<<>>)]),
     Request([jsonrpc |-> Str("2.0"), id |-> None, method |-> Str("fail")]),
     Request([jsonrpc |-> Str("2.0"), method |-> List(<<>>)])}

(***************************************************************************)
(* Python operations process_request uses.                                 *)
(***************************************************************************)
\* dict.get(key): the value, or None when the key is missing.
dict_get(d, key, default) == IF key \in DOMAIN d THEN d[key] ELSE default

\* Lists and dicts are unhashable.
Hashable(v) == v.t \notin {"list", "dict"}

IsSubstring(a, b) ==
    \E i \in 1..(Len(b) + 1) : \E j \in (i - 1)..Len(b) : SubSeq(b, i, j) = a

\* `item in container`: [raised, value].
contains(container, item) ==
    IF container.t = "dict"
    THEN IF Hashable(item)
         THEN [raised |-> FALSE,
               value |-> item.t = "str" /\ item.s \in DOMAIN container.d]
         ELSE [raised |-> TRUE, value |-> FALSE]
    ELSE IF container.t = "list"
    THEN [raised |-> FALSE,
          value |-> \E i \in 1..Len(container.l) : container.l[i] = item]
    ELSE IF container.t = "str"
    THEN IF item.t = "str"
         THEN [raised |-> FALSE, value |-> IsSubstring(item.s, container.s)]
         ELSE [raised |-> TRUE, value |-> FALSE]
    ELSE [raised |-> TRUE, value |-> FALSE]

\* `container[key]`: [raised, value].
subscript(container, key) ==
    IF container.t = "dict"
    THEN IF Hashable(key) /\ key.t = "str" /\ key.s \in DOMAIN container.d
         THEN [raised |-> FALSE, value |-> container.d[key.s]]
         ELSE [raised |-> TRUE, value |-> None]
    ELSE IF container.t = "list" /\ key.t = "num"
            /\ key.n >= 0 - Len(container.l) /\ key.n < Len(container.l)
    THEN [raised |-> FALSE,
          value |-> container.l[IF key.n >= 0 THEN key.n + 1
                                ELSE Len(container.l) + key.n + 1]]
    ELSE [raised |-> TRUE, value |-> None]

\* str() and repr() of a value.
RECURSIVE PyRepr(_)
RECURSIVE PyReprItems(_)
RECURSIVE PyReprPairs(_, _)
PyReprItems(l) ==
    IF l = <<>> THEN ""
    ELSE PyRepr(l[1]) \o (IF Len(l) > 1 THEN ", " ELSE "") \o PyReprItems(Tail(l))
PyReprPairs(d, keys) ==
    IF keys = {} THEN ""
    ELSE LET k == CHOOSE x \in keys : TRUE
         IN "'" \o k \o "': " \o PyRepr(d[k])
            \o (IF keys = {k} THEN "" ELSE ", ") \o PyReprPairs(d, keys \ {k})
PyRepr(v) ==
    IF v.t = "null" THEN "None"
    ELSE IF v.t = "str" THEN "'" \o v.s \o "'"
    ELSE IF v.t = "num" THEN ToString(v.n)
    ELSE IF v.t = "list" THEN "[" \o PyReprItems(v.l) \o "]"
    ELSE "{" \o PyReprPairs(v.d, DOMAIN v.d) \o "}"
PyStr(v) == IF v.t = "str" THEN v.s ELSE PyRepr(v)

(***************************************************************************)
(* process_request.                                                        *)
(***************************************************************************)
Returned(v) == [raised |-> FALSE, value |-> v]
Raised(exc) == [raised |-> TRUE, value |-> Str(exc)]

ErrorResponse(id, code, message) ==
    Dict([jsonrpc |-> Str("2.0"), id |-> id,
          error |-> Dict([code |-> code, message |-> message])])
\* A faulty variant of ResultResponse: the payload is stringified.
ResultResponse_stringified(id, result) ==
    Dict([jsonrpc |-> Str("2.0"), id |-> id, result |-> Str(PyStr(result))])

ResultResponse(id, result) ==
    Dict([jsonrpc |-> Str("2.0"), id |-> id, result |-> result])

\* A faulty variant of ParseErrorResponse: the wrong JSON-RPC code.
ParseErrorResponse_invalid_request(msg) ==
    ErrorResponse(None, Num(-32600), Str("Parse error: " \o msg))

ParseErrorResponse(msg) ==
    ErrorResponse(None, Num(-32700), Str("Parse error: " \o msg))

\* A faulty variant of ConfiguredError: a list needs more than two elements
\* to be taken positionally.
ConfiguredError_longer_list(id, error_data) ==
    IF error_data.t = "list" /\ Len(error_data.l) > 2
    THEN ErrorResponse(id, error_data.l[1], error_data.l[2])
    ELSE IF error_data.t = "dict"
    THEN ErrorResponse(id,
                       dict_get(error_data.d, "code", Num(-32603)),
                       dict_get(error_data.d, "message", Str("Internal error")))
    ELSE ErrorResponse(id, Num(-32603), Str(PyStr(error_data)))

\* The error descriptor's code and message.
ConfiguredError(id, error_data) ==
    IF error_data.t = "list" /\ Len(error_data.l) >= 2
    THEN ErrorResponse(id, error_data.l[1], error_data.l[2])
    ELSE IF error_data.t = "dict"
    THEN ErrorResponse(id,
                       dict_get(error_data.d, "code", Num(-32603)),
                       dict_get(error_data.d, "message", Str("Internal error")))
    ELSE ErrorResponse(id, Num(-32603), Str(PyStr(error_data)))

\* A faulty variant of MethodNotFound: the request's id is not echoed.
MethodNotFound_null_id(id, m) ==
    ErrorResponse(None, Num(-32601), Str("Method not found: " \o PyStr(m)))

MethodNotFound(id, m) ==
    ErrorResponse(id, Num(-32601), Str("Method not found: " \o PyStr(m)))

\* A faulty variant of resolve: an unknown method is left unanswered.
resolve_drop_not_found(m, id, resps, errs) ==
    IF id = None THEN Returned(None)
    ELSE IF contains(errs, m).raised THEN Raised("TypeError")
    ELSE IF contains(errs, m).value
    THEN IF subscript(errs, m).raised THEN Raised("TypeError")
         ELSE Returned(ConfiguredError(id, subscript(errs, m).value))
    ELSE IF contains(resps, m).raised THEN Raised("TypeError")
    ELSE IF contains(resps, m).value
    THEN IF subscript(resps, m).raised THEN Raised("TypeError")
         ELSE Returned(ResultResponse(id, subscript(resps, m).value))
    ELSE Returned(None)

\* A faulty variant of resolve: responses is consulted before errors.
resolve_responses_first(m, id, resps, errs) ==
    IF id = None THEN Returned(None)
    ELSE IF contains(resps, m).raised THEN Raised("TypeError")
    ELSE IF contains(resps, m).value
    THEN IF subscript(resps, m).raised THEN Raised("TypeError")
         ELSE Returned(ResultResponse(id, subscript(resps, m).value))
    ELSE IF contains(errs, m).raised THEN Raised("TypeError")
    ELSE IF contains(errs, m).value
    THEN IF subscript(errs, m).raised THEN Raised("TypeError")
         ELSE Returned(ConfiguredError(id, subscript(errs, m).value))
    ELSE Returned(MethodNotFound(id, m))

\* process_request after the delay: the value returned or the exception raised.
resolve(m, id, resps, errs) ==
    IF id = None THEN Returned(None)
    ELSE IF contains(errs, m).raised THEN Raised("TypeError")
    ELSE IF contains(errs, m).value
    THEN IF subscript(errs, m).raised THEN Raised("TypeError")
         ELSE Returned(ConfiguredError(id, subscript(errs, m).value))
    ELSE IF contains(resps, m).raised THEN Raised("TypeError")
    ELSE IF contains(resps, m).value
    THEN IF subscript(resps, m).raised THEN Raised("TypeError")
         ELSE Returned(ResultResponse(id, subscript(resps, m).value))
    ELSE Returned(MethodNotFound(id, m))

(***************************************************************************)
(* The serving loop.                                                       *)
(***************************************************************************)
ServingPcs == {"serve", "process", "sleep", "resolve", "returned"}
PcValues == {"start", "hanging", "crashed", "killed"} \cup ServingPcs
            \cup {"exited", "failed", "interrupted"}

\* The loop's next iteration: the locals of the finished one are dead.
NextIteration ==
    /\ pc' = "serve"
    /\ line' = NoText
    /\ method' = None
    /\ req_id' = None
    /\ response' = None

\* A faulty variant of Fail: the handler is inside the loop, which goes on.
Fail_keeps_serving(exc) ==
    /\ pc' = "serve"
    /\ stderr' = Append(stderr, "Mock server error: " \o exc)

\* `except Exception`: the diagnostic, then main returns.  The exception's
\* text is represented by the name of its type.
Fail(exc) ==
    /\ pc' = "failed"
    /\ stderr' = Append(stderr, "Mock server error: " \o exc)

\* `for line in sys.stdin` yields a line (a read is the loop taking the
\* line, whatever the stream buffered before); blank lines are skipped.
TakeLine(lines) ==
    /\ pc = "serve"
    /\ Len(consumed) < MaxLines
    /\ \E raw \in lines :
        /\ consumed' = Append(consumed, raw)
        /\ IF strip(raw) = EmptyText
           THEN /\ pc' = "serve"
                /\ line' = NoText
           ELSE /\ pc' = "process"
                /\ line' = strip(raw)
    /\ read_at' = clock
    /\ UNCHANGED <<responses, errors, delay_seconds, hang_forever, method,
                   req_id, response, stdout, stderr, clock, log>>
    /\ trace' = Append(trace, [read_at |-> clock, slept |-> 0])
    /\ UNCHANGED closed

\* The client writes a line while the loop waits for one.
ReadLineFrom(lines) ==
    /\ pending = <<>>
    /\ ~closed
    /\ TakeLine(lines)
    /\ UNCHANGED pending

ReadLine == ReadLineFrom(Lines)

\* A faulty variant of ExitLoop: the loop ends as soon as the stream is
\* closed, with lines still in the buffer.
ExitLoop_ignores_buffer ==
    /\ pc = "serve"
    /\ pc' = "exited"
    /\ UNCHANGED <<responses, errors, delay_seconds, hang_forever, consumed,
                   line, method, req_id, response, stdout, stderr, clock,
                   read_at, log>>
    /\ UNCHANGED <<trace, pending>>

\* `for line in sys.stdin` finds the end of the stream: main returns.
ExitLoop ==
    /\ pc = "serve"
    /\ pending = <<>>
    /\ pc' = "exited"
    /\ UNCHANGED <<responses, errors, delay_seconds, hang_forever, consumed,
                   line, method, req_id, response, stdout, stderr, clock,
                   read_at, log>>
    /\ UNCHANGED <<trace, pending>>

\* The client closes the stream while the loop waits for a line.
EndOfStream ==
    /\ ~closed
    /\ closed' = TRUE
    /\ ExitLoop

\* A faulty variant of Decode: the notification check comes before the
\* delay, so that only calls are delayed.
Decode_delays_calls_only ==
    /\ pc = "process"
    /\ LET parsed == json_loads(line)
       IN IF ~parsed.ok
          THEN /\ response' = ParseErrorResponse(parsed.msg)
               /\ pc' = "returned"
               /\ UNCHANGED <<method, req_id, stderr>>
          ELSE IF parsed.value.t # "dict"
          THEN /\ Fail("AttributeError")
               /\ UNCHANGED <<method, req_id, response>>
          ELSE /\ method' = dict_get(parsed.value.d, "method", None)
               /\ req_id' = dict_get(parsed.value.d, "id", None)
               /\ pc' = IF delay_seconds > 0 /\ req_id' # None
                        THEN "sleep" ELSE "resolve"
               /\ UNCHANGED <<response, stderr>>
    /\ UNCHANGED <<responses, errors, delay_seconds, hang_forever, consumed,
                   line, stdout, clock, read_at, log>>
    /\ UNCHANGED <<trace, pending, closed>>

\* process_request up to the delay: json.loads and the two request.get.
Decode ==
    /\ pc = "process"
    /\ LET parsed == json_loads(line)
       IN IF ~parsed.ok
          THEN /\ response' = ParseErrorResponse(parsed.msg)
               /\ pc' = "returned"
               /\ UNCHANGED <<method, req_id, stderr>>
          ELSE IF parsed.value.t # "dict"
          THEN /\ Fail("AttributeError")
               /\ UNCHANGED <<method, req_id, response>>
          ELSE /\ method' = dict_get(parsed.value.d, "method", None)
               /\ req_id' = dict_get(parsed.value.d, "id", None)
               /\ pc' = IF delay_seconds > 0 THEN "sleep" ELSE "resolve"
               /\ UNCHANGED <<response, stderr>>
    /\ UNCHANGED <<responses, errors, delay_seconds, hang_forever, consumed,
                   line, stdout, clock, read_at, log>>
    /\ UNCHANGED <<trace, pending, closed>>

\* A faulty variant of Sleep: the delay is not waited for.
Sleep_returns_at_once ==
    /\ pc = "sleep"
    /\ pc' = "resolve"
    /\ UNCHANGED <<responses, errors, delay_seconds, hang_forever, consumed,
                   line, method, req_id, response, stdout, stderr, clock,
                   read_at, log>>
    /\ UNCHANGED <<trace, pending, closed>>

\* time.sleep(delay_seconds): at least delay_seconds pass.  The model lets
\* exactly delay_seconds pass, the least the call can take.
Sleep ==
    /\ pc = "sleep"
    /\ clock' = clock + delay_seconds
    /\ pc' = "resolve"
    /\ UNCHANGED <<responses, errors, delay_seconds, hang_forever, consumed,
                   line, method, req_id, response, stdout, stderr, read_at, log>>
    /\ trace' = [trace EXCEPT ![Len(trace)].slept = @ + 1]
    /\ UNCHANGED <<pending, closed>>

\* A faulty variant of Resolve: a configured result is handed out once, the
\* method is taken out of responses when it is served.
Resolve_consumes_response ==
    /\ pc = "resolve"
    /\ LET out == resolve(method, req_id, responses, errors)
       IN IF out.raised
          THEN /\ Fail(out.value.s)
               /\ UNCHANGED <<response, responses>>
          ELSE /\ response' = out.value
               /\ pc' = "returned"
               /\ responses' =
                      IF responses.t = "dict" /\ method.t = "str"
                         /\ out.value # None
                      THEN Dict([k \in DOMAIN responses.d \ {method.s} |->
                                    responses.d[k]])
                      ELSE responses
               /\ UNCHANGED stderr
    /\ UNCHANGED <<errors, delay_seconds, hang_forever, consumed,
                   line, method, req_id, stdout, clock, read_at, log>>
    /\ UNCHANGED <<trace, pending, closed>>

\* process_request from the notification check to its return.
Resolve ==
    /\ pc = "resolve"
    /\ LET out == resolve(method, req_id, responses, errors)
       IN IF out.raised
          THEN /\ Fail(out.value.s)
               /\ UNCHANGED response
          ELSE /\ response' = out.value
               /\ pc' = "returned"
               /\ UNCHANGED stderr
    /\ UNCHANGED <<responses, errors, delay_seconds, hang_forever, consumed,
                   line, method, req_id, stdout, clock, read_at, log>>
    /\ UNCHANGED <<trace, pending, closed>>

\* json.dumps: every value a response holds came out of json.loads, so it is
\* serializable and the line is the JSON document for the value.
json_dumps(v) == v

\* A faulty variant of WriteResponse: None is printed too.
WriteResponse_unconditional ==
    /\ pc = "returned"
    /\ stdout' = Append(stdout, json_dumps(response))
    /\ log' = Append(log, [src |-> Len(consumed), read_at |-> read_at,
                           written_at |-> clock])
    /\ NextIteration
    /\ UNCHANGED <<responses, errors, delay_seconds, hang_forever, consumed,
                   stderr, clock, read_at>>
    /\ UNCHANGED <<trace, pending, closed>>

\* A faulty variant of WriteResponse: the newest line is put first.
WriteResponse_newest_first ==
    /\ pc = "returned"
    /\ IF response # None
       THEN /\ stdout' = <<json_dumps(response)>> \o stdout
            /\ log' = <<[src |-> Len(consumed), read_at |-> read_at,
                         written_at |-> clock]>> \o log
       ELSE UNCHANGED <<stdout, log>>
    /\ NextIteration
    /\ UNCHANGED <<responses, errors, delay_seconds, hang_forever, consumed,
                   stderr, clock, read_at>>
    /\ UNCHANGED <<trace, pending, closed>>

\* A faulty variant of WriteResponse: the line is printed twice.
WriteResponse_twice ==
    /\ pc = "returned"
    /\ IF response # None
       THEN /\ stdout' = stdout \o <<json_dumps(response), json_dumps(response)>>
            /\ log' = log \o <<[src |-> Len(consumed), read_at |-> read_at,
                                written_at |-> clock],
                               [src |-> Len(consumed), read_at |-> read_at,
                                written_at |-> clock]>>
       ELSE UNCHANGED <<stdout, log>>
    /\ NextIteration
    /\ UNCHANGED <<responses, errors, delay_seconds, hang_forever, consumed,
                   stderr, clock, read_at>>
    /\ UNCHANGED <<trace, pending, closed>>

\* main's `if response is not None: print(json.dumps(response), flush=True)`.
WriteResponse ==
    /\ pc = "returned"
    /\ IF response # None
       THEN /\ stdout' = Append(stdout, json_dumps(response))
            /\ log' = Append(log, [src |-> Len(consumed), read_at |-> read_at,
                                   written_at |-> clock])
       ELSE UNCHANGED <<stdout, log>>
    /\ NextIteration
    /\ UNCHANGED <<responses, errors, delay_seconds, hang_forever, consumed,
                   stderr, clock, read_at>>
    /\ UNCHANGED <<trace, pending, closed>>

\* The hang loop: `while True: time.sleep(1)`.
HangForever ==
    /\ pc = "hanging"
    /\ clock < MaxHangSleeps
    /\ clock' = clock + 1
    /\ UNCHANGED <<pc, responses, errors, delay_seconds, hang_forever, consumed,
                   line, method, req_id, response, stdout, stderr, read_at, log>>
    /\ UNCHANGED <<trace, pending, closed>>

\* The interruption signal: KeyboardInterrupt is caught in the serving loop
\* and kills the process (uncaught) in the hang loop.
Interrupt ==
    /\ pc \in ServingPcs \cup {"hanging"}
    /\ IF pc = "hanging"
       THEN /\ pc' = "killed"
            /\ stderr' = Append(stderr, "KeyboardInterrupt")
       ELSE /\ pc' = "interrupted"
            /\ stderr' = Append(stderr, "Mock server interrupted")
    /\ UNCHANGED <<responses, errors, delay_seconds, hang_forever, consumed,
                   line, method, req_id, response, stdout, clock, read_at, log>>
    /\ UNCHANGED <<trace, pending, closed>>

Next ==
    \/ Startup
    \/ ReadLine
    \/ EndOfStream
    \/ Decode
    \/ Sleep
    \/ Resolve
    \/ WriteResponse
    \/ HangForever
    \/ Interrupt

Spec == Init /\ [][Next]_vars

(***************************************************************************)
(* The server with one failing method, "fail", configured with an error    *)
(* descriptor of every shape process_request distinguishes, and with       *)
(* descriptors whose code and message have other types than integer and    *)
(* string.                                                                 *)
(***************************************************************************)
Descriptors ==
    {List(<<Num(123), Str("boom")>>),
     List(<<Num(123), Str("boom"), Str("extra")>>),
     List(<<Str("boom"), Num(123)>>),
     List(<<Num(1)>>),
     List(<<>>),
     EmptyDict,
     Dict([code |-> Num(7)]),
     Dict([message |-> Str("denied")]),
     Dict([code |-> Num(7), message |-> Str("denied")]),
     Dict([code |-> Str("E1"), message |-> Num(7)]),
     Str("oops"),
     Num(5),
     None}
DescriptorEnvironments ==
    [MCP_MOCK_RESPONSES : {Unset},
     MCP_MOCK_ERRORS : {JsonText(Dict([fail |-> d])) : d \in Descriptors},
     MCP_MOCK_DELAY : {Unset, Str("2")},
     MCP_MOCK_HANG : {Unset, Str("TRUE")}]
DescriptorLines ==
    {Padded(EmptyText),
     RawLine(Garbage("Expecting value: line 1 column 1 (char 0)")),
     Request([jsonrpc |-> Str("2.0"), id |-> Num(1), method |-> Str("fail")]),
     Request([jsonrpc |-> Str("2.0"), id |-> Num(2), method |-> Str("nope")]),
     Request([jsonrpc |-> Str("2.0"), method |-> Str("fail")])}

StartupDescriptors == StartupFrom(DescriptorEnvironments)
ReadLineDescriptors == ReadLineFrom(DescriptorLines)

NextDescriptors ==
    \/ StartupDescriptors
    \/ ReadLineDescriptors
    \/ EndOfStream
    \/ Decode
    \/ Sleep
    \/ Resolve
    \/ WriteResponse
    \/ HangForever
    \/ Interrupt

SpecDescriptors == Init /\ [][NextDescriptors]_vars

(***************************************************************************)
(* The server and its client as two processes: the client writes lines to  *)
(* the pipe and closes it whenever it likes, the loop takes the lines out   *)
(* of the pipe in order and sees the end of the stream when the pipe is     *)
(* closed and empty.  The server's own steps are fair: the process is      *)
(* scheduled, json.loads, dict look-ups and print return, and time.sleep   *)
(* of a finite delay returns.  The client's steps and the interrupt are    *)
(* not.                                                                    *)
(***************************************************************************)
LiveEnvironments ==
    [MCP_MOCK_RESPONSES : {JsonText(ResponsesObject)},
     MCP_MOCK_ERRORS : {JsonText(ErrorsObject)},
     MCP_MOCK_DELAY : {Unset, Str("2")},
     MCP_MOCK_HANG : {Unset, Str("TRUE")}]
LiveLines ==
    {Padded(EmptyText),
     RawLine(Garbage("Expecting value: line 1 column 1 (char 0)")),
     RawLine(JsonText(Num(42))),
     Request([jsonrpc |-> Str("2.0"), id |-> Num(1), method |-> Str("ping")]),
     Request([jsonrpc |-> Str("2.0"), id |-> Str("a"), method |-> Str("fail")]),
     Request([jsonrpc |-> Str("2.0"), id |-> None, method |-> Str("fail")])}
Terminated == {"exited", "failed", "interrupted", "crashed", "killed"}

LiveStartup == StartupFrom(LiveEnvironments)

\* The client writes a line to the pipe.
Send ==
    /\ ~closed
    /\ pc \notin Terminated
    /\ Len(consumed) + Len(pending) < MaxLines
    /\ \E raw \in LiveLines : pending' = Append(pending, raw)
    /\ UNCHANGED <<pc, responses, errors, delay_seconds, hang_forever, consumed,
                   line, method, req_id, response, stdout, stderr, clock,
                   read_at, log, trace, closed>>

\* The client closes the pipe.
Close ==
    /\ ~closed
    /\ closed' = TRUE
    /\ UNCHANGED <<pc, responses, errors, delay_seconds, hang_forever, consumed,
                   line, method, req_id, response, stdout, stderr, clock,
                   read_at, log, trace, pending>>

\* `for line in sys.stdin` yields the oldest line of the pipe.
Receive ==
    /\ pending # <<>>
    /\ TakeLine({Head(pending)})
    /\ pending' = Tail(pending)

\* `for line in sys.stdin` finds the pipe closed and empty.
EndOfStreamSeen ==
    /\ closed
    /\ ExitLoop
    /\ UNCHANGED closed

LiveNext ==
    \/ LiveStartup
    \/ Send
    \/ Close
    \/ Receive
    \/ EndOfStreamSeen
    \/ Decode
    \/ Sleep
    \/ Resolve
    \/ WriteResponse
    \/ HangForever
    \/ Interrupt

LiveSpec ==
    /\ Init
    /\ [][LiveNext]_vars
    /\ WF_vars(Receive)
    /\ WF_vars(EndOfStreamSeen)
    /\ WF_vars(Decode)
    /\ WF_vars(Sleep)
    /\ WF_vars(Resolve)
    /\ WF_vars(WriteResponse)

(***************************************************************************)
(* What a client observes.                                                 *)
(***************************************************************************)
IsGarbageLine(raw) == strip(raw).k = "garbage"
IsObjectLine(raw) == strip(raw).k = "json" /\ strip(raw).v.t = "dict"
IdOf(raw) == dict_get(strip(raw).v.d, "id", None)
MethodOf(raw) == dict_get(strip(raw).v.d, "method", None)
IsCallLine(raw) == IsObjectLine(raw) /\ IdOf(raw) # None
IsNotificationLine(raw) == IsObjectLine(raw) /\ IdOf(raw) = None

IsMapping(v) == v.t = "dict"
IsKeyOf(m, mapping) == IsMapping(mapping) /\ m.t = "str" /\ m.s \in DOMAIN mapping.d

IsErrorResponse(r) ==
    /\ r.t = "dict"
    /\ DOMAIN r.d = {"jsonrpc", "id", "error"}
    /\ r.d.jsonrpc = Str("2.0")
    /\ r.d.error.t = "dict"
    /\ DOMAIN r.d.error.d = {"code", "message"}
IsResultResponse(r) ==
    /\ r.t = "dict"
    /\ DOMAIN r.d = {"jsonrpc", "id", "result"}
    /\ r.d.jsonrpc = Str("2.0")

\* The stdout lines written for input line i.
AnswersOf(i) == {k \in 1..Len(stdout) : log[k].src = i}
\* Input line i is behind the loop: the next line was read, or the loop is
\* back at its top.
Finished(i) == i < Len(consumed) \/ line = NoText
\* Input line i is behind the loop, or it is the line the loop failed on.
Settled(i) == Finished(i) \/ pc = "failed"

TypeOK ==
    /\ pc \in PcValues
    /\ Len(consumed) <= MaxLines
    /\ Len(log) = Len(stdout)
    /\ hang_forever \in BOOLEAN
    /\ delay_seconds \in Int
    /\ Len(trace) = Len(consumed)
    /\ Len(consumed) + Len(pending) <= MaxLines
    /\ closed \in BOOLEAN

(***************************************************************************)
(* C1. In the Serving state, with responses and errors both JSON objects,  *)
(* every input line that decodes to an object with a non-null id and a     *)
(* string or absent method is answered by exactly one output line, written *)
(* before the next input line is read, that is a result or an error        *)
(* response and carries the request's id.                                  *)
(***************************************************************************)
IsWellFormedCall(raw) ==
    IsCallLine(raw) /\ MethodOf(raw).t \in {"str", "null"}

C1_EveryCallAnswered ==
    (IsMapping(responses) /\ IsMapping(errors)) =>
        \A i \in 1..Len(consumed) :
            (IsWellFormedCall(consumed[i]) /\ Finished(i)) =>
                \E k \in 1..Len(stdout) :
                    /\ AnswersOf(i) = {k}
                    /\ IsErrorResponse(stdout[k]) \/ IsResultResponse(stdout[k])
                    /\ stdout[k].d.id = IdOf(consumed[i])

C1_Witness ==
    /\ IsMapping(responses) /\ IsMapping(errors)
    /\ Len(consumed) = 2
    /\ IsWellFormedCall(consumed[1]) /\ MethodOf(consumed[1]) = None
    /\ IsWellFormedCall(consumed[2]) /\ MethodOf(consumed[2]) = Str("ping")
    /\ pc = "process"
    /\ Len(stdout) = 1 /\ log[1].src = 1

(***************************************************************************)
(* C2. For every call whose method is a key of errors the response is an   *)
(* error response and never a result response, whether or not the method   *)
(* is also a key of responses.                                             *)
(***************************************************************************)
C2_ErrorsWin ==
    \A i \in 1..Len(consumed) :
        (IsCallLine(consumed[i]) /\ IsKeyOf(MethodOf(consumed[i]), errors)) =>
            /\ \A k \in AnswersOf(i) :
                 IsErrorResponse(stdout[k]) /\ ~IsResultResponse(stdout[k])
            /\ Settled(i) => Cardinality(AnswersOf(i)) = 1

C2_Witness ==
    /\ Len(consumed) >= 1
    /\ IsCallLine(consumed[1])
    /\ IsKeyOf(MethodOf(consumed[1]), errors)
    /\ IsKeyOf(MethodOf(consumed[1]), responses)
    /\ Finished(1)
    /\ AnswersOf(1) = {1}

C4_UnknownMethodNotFound ==
    (IsMapping(responses) /\ IsMapping(errors)) =>
        \A i \in 1..Len(consumed) :
            (/\ IsCallLine(consumed[i])
             /\ ~IsKeyOf(MethodOf(consumed[i]), responses)
             /\ ~IsKeyOf(MethodOf(consumed[i]), errors)
             /\ Settled(i)) =>
                \E k \in 1..Len(stdout) :
                    /\ AnswersOf(i) = {k}
                    /\ IsErrorResponse(stdout[k])
                    /\ stdout[k].d.error.d.code = Num(-32601)
                    /\ stdout[k].d.error.d.message.t = "str"
                    /\ IsSubstring(PyStr(MethodOf(consumed[i])),
                                   stdout[k].d.error.d.message.s)
                    /\ stdout[k].d.id = IdOf(consumed[i])

(***************************************************************************)
(* C5. For every input line that decodes to an object whose id is absent   *)
(* or null, no output line is ever written, whatever its method and        *)
(* whatever the configured responses and errors.                           *)
(***************************************************************************)
C5_NotificationsSilent ==
    \A i \in 1..Len(consumed) :
        IsNotificationLine(consumed[i]) => AnswersOf(i) = {}

C5_Witness ==
    /\ Len(consumed) = 2
    /\ IsNotificationLine(consumed[1])
    /\ IsKeyOf(MethodOf(consumed[1]), errors)
    /\ IsNotificationLine(consumed[2])
    /\ MethodOf(consumed[2]).t = "list"
    /\ line = NoText
    /\ pc = "exited"
    /\ stdout = <<>>

(***************************************************************************)
(* C6. In the Serving state every non-blank input line that is not valid   *)
(* JSON produces exactly one error response with code -32700 and id null,  *)
(* whatever the configuration, and the server goes on to read and process  *)
(* the following lines.                                                    *)
(***************************************************************************)
C6_ParseError ==
    \A i \in 1..Len(consumed) :
        IsGarbageLine(consumed[i]) =>
            /\ i = Len(consumed) => pc # "failed"
            /\ Finished(i) =>
                \E k \in 1..Len(stdout) :
                    /\ AnswersOf(i) = {k}
                    /\ IsErrorResponse(stdout[k])
                    /\ stdout[k].d.id = None
                    /\ stdout[k].d.error.d.code = Num(-32700)

C6_Witness ==
    /\ Len(consumed) = 2
    /\ IsGarbageLine(consumed[1])
    /\ IsCallLine(consumed[2])
    /\ ~IsMapping(responses)
    /\ Len(stdout) = 2
    /\ log[1].src = 1 /\ log[2].src = 2

(***************************************************************************)
(* C7. When the hang setting is enabled the process enters Hanging at      *)
(* startup and stays there: it has read no input line and written no       *)
(* output line, it never serves and it never terminates by itself.         *)
(***************************************************************************)
C7_HangStaysHanging ==
    hang_forever =>
        /\ pc \in {"hanging", "killed"}
        /\ consumed = <<>>
        /\ stdout = <<>>

(***************************************************************************)
(* C8. If delaySeconds = N > 0, at least N time units pass between the     *)
(* read of a request line and the write of its response line, and any two  *)
(* consecutive response lines are written at least N time units apart.     *)
(***************************************************************************)
WaitedFor(k) ==
    /\ log[k].written_at - log[k].read_at >= delay_seconds
    /\ k > 1 => log[k].written_at - log[k - 1].written_at >= delay_seconds

\* As stated: of every response line.
C8_EveryResponseDelayed ==
    delay_seconds > 0 => \A k \in 1..Len(stdout) : WaitedFor(k)

\* As amended: of every response line to a line that was decoded (the
\* response to a line that fails to parse is not delayed).
C8_DecodedRequestsDelayed ==
    delay_seconds > 0 =>
        \A k \in 1..Len(stdout) :
            ~IsGarbageLine(consumed[log[k].src]) => WaitedFor(k)

C8_Witness ==
    /\ delay_seconds > 0
    /\ Len(stdout) = 2
    /\ IsCallLine(consumed[log[1].src])
    /\ IsCallLine(consumed[log[2].src])
    /\ log[2].written_at - log[1].written_at = delay_seconds

(***************************************************************************)
(* C9. Responses are written in the order their requests were read: the    *)
(* output is the sequence of the responses of the response-producing input *)
(* lines, in input order, and the response to a line is written before the *)
(* next line is read, also when a delay is configured.                     *)
(***************************************************************************)
NoResponse == [t |-> "none"]
\* What process_request makes of one raw line, NoResponse when it makes none.
ResponseTo(raw) ==
    LET parsed == json_loads(strip(raw))
    IN IF strip(raw) = EmptyText THEN NoResponse
       ELSE IF ~parsed.ok THEN ParseErrorResponse(parsed.msg)
       ELSE IF parsed.value.t # "dict" THEN NoResponse
       ELSE LET out == resolve(MethodOf(raw), IdOf(raw), responses, errors)
            IN IF out.raised \/ out.value = None THEN NoResponse
               ELSE out.value
RECURSIVE ResponsesTo(_)
ResponsesTo(raws) ==
    IF raws = <<>> THEN <<>>
    ELSE (IF ResponseTo(raws[1]) = NoResponse THEN <<>>
          ELSE <<ResponseTo(raws[1])>>) \o ResponsesTo(Tail(raws))
\* The lines that are behind the loop.
Processed ==
    IF line = NoText THEN consumed ELSE SubSeq(consumed, 1, Len(consumed) - 1)

C9_OrderPreserved ==
    /\ stdout = ResponsesTo(Processed)
    /\ \A k \in 1..Len(stdout) :
        /\ log[k].src \in 1..Len(Processed)
        /\ k > 1 => log[k - 1].src < log[k].src

C9_Witness ==
    /\ delay_seconds > 0
    /\ Len(consumed) = 2
    /\ Len(stdout) = 2
    /\ stdout[1] # stdout[2]
    /\ IsResultResponse(stdout[1])
    /\ IsErrorResponse(stdout[2])

(***************************************************************************)
(* C10. Every input line causes zero or one output line: the number of     *)
(* lines written is at most the number of non-blank lines read, and no     *)
(* line causes two output lines.                                           *)
(***************************************************************************)
NonBlankRead == {i \in 1..Len(consumed) : strip(consumed[i]) # EmptyText}

C10_AtMostOnePerLine ==
    /\ Len(stdout) <= Cardinality(NonBlankRead)
    /\ \A i \in 1..Len(consumed) : Cardinality(AnswersOf(i)) <= 1
    /\ \A k \in 1..Len(stdout) : log[k].src \in NonBlankRead

C10_Witness ==
    /\ Len(consumed) = 2
    /\ strip(consumed[1]) = EmptyText
    /\ consumed[1].pad
    /\ Len(stdout) = 1
    /\ log[1].src = 2
    /\ line = NoText

(***************************************************************************)
(* C11. The configuration loader never fails the process on bad input: for *)
(* every combination of the four settings (absent, empty, malformed, valid *)
(* JSON that is not an object), once startup is over responses and errors  *)
(* are mappings and the process is in Serving or Hanging (or beyond), not  *)
(* dead of an uncaught exception.                                          *)
(***************************************************************************)
C11_LoaderDegrades ==
    pc # "start" =>
        /\ IsMapping(responses)
        /\ IsMapping(errors)
        /\ pc # "crashed"

(***************************************************************************)
(* C12. A malformed line is never fatal: the loop does not fail on a       *)
(* non-blank line that is not a well-formed request object (invalid JSON,  *)
(* JSON that is not an object, an object whose method is not a string),    *)
(* and once such a line is behind the loop, one error response answers it  *)
(* (a notification, which is never answered, aside).                       *)
(***************************************************************************)
IsMalformedLine(raw) ==
    /\ strip(raw) # EmptyText
    /\ \/ ~IsObjectLine(raw)
       \/ MethodOf(raw).t # "str"

C12_MalformedNeverFatal ==
    \A i \in 1..Len(consumed) :
        IsMalformedLine(consumed[i]) =>
            /\ ~(pc = "failed" /\ i = Len(consumed))
            /\ (Finished(i) /\ ~IsNotificationLine(consumed[i])) =>
                   \E k \in AnswersOf(i) : IsErrorResponse(stdout[k])

(***************************************************************************)
(* C13. Every error response on stdout has an error object whose code is   *)
(* an integer and whose message is a string, whatever error descriptor is  *)
(* configured and for the built-in -32700 and -32601 errors.               *)
(***************************************************************************)
C13_ErrorCodeIntegerMessageString ==
    \A k \in 1..Len(stdout) :
        IsErrorResponse(stdout[k]) =>
            /\ stdout[k].d.error.d.code.t = "num"
            /\ stdout[k].d.error.d.message.t = "str"

(***************************************************************************)
(* C16. The response to a call of a method that errors maps to an error    *)
(* descriptor is an error response whose code and message follow the       *)
(* descriptor's shape: a list of at least two elements gives elements 0    *)
(* and 1 (further elements are ignored); a mapping gives its code and      *)
(* message, -32603 and 'Internal error' standing in for a missing key;     *)
(* every other value, a shorter list included, gives -32603 and the        *)
(* stringified value.                                                      *)
(***************************************************************************)
CodeByShape(d) ==
    IF d.t = "list" /\ Len(d.l) >= 2 THEN d.l[1]
    ELSE IF d.t = "dict" /\ "code" \in DOMAIN d.d THEN d.d.code
    ELSE Num(-32603)
MessageByShape(d) ==
    IF d.t = "list" /\ Len(d.l) >= 2 THEN d.l[2]
    ELSE IF d.t = "dict"
    THEN (IF "message" \in DOMAIN d.d THEN d.d.message
          ELSE Str("Internal error"))
    ELSE Str(PyStr(d))

C16_DescriptorByShape ==
    \A i \in 1..Len(consumed) :
        (/\ IsCallLine(consumed[i])
         /\ IsKeyOf(MethodOf(consumed[i]), errors)
         /\ Finished(i)) =>
            \E k \in 1..Len(stdout) :
                /\ AnswersOf(i) = {k}
                /\ IsErrorResponse(stdout[k])
                /\ stdout[k].d.id = IdOf(consumed[i])
                /\ stdout[k].d.error.d.code =
                       CodeByShape(errors.d[MethodOf(consumed[i]).s])
                /\ stdout[k].d.error.d.message =
                       MessageByShape(errors.d[MethodOf(consumed[i]).s])

\* The descriptor is a list of one element and the call is made twice: both
\* answers carry -32603 and the text of the list.
C16_Witness ==
    /\ errors = Dict([fail |-> List(<<Num(1)>>)])
    /\ Len(stdout) = 2
    /\ IsCallLine(consumed[1])
    /\ MethodOf(consumed[1]) = Str("fail")
    /\ stdout[1].d.error.d = [code |-> Num(-32603), message |-> Str("[1]")]
    /\ stdout[2].d.error.d = [code |-> Num(-32603), message |-> Str("[1]")]

(***************************************************************************)
(* C14. After an unexpected internal failure while processing a line (the  *)
(* 'Mock server error' diagnostic is on stderr) the loop has stopped for   *)
(* good: the failing line, which is the last line read, has no output      *)
(* line, stdout holds the responses to the lines before it and nothing     *)
(* else, main has returned, and nothing changes from then on: no line is   *)
(* read and none is written.                                               *)
(***************************************************************************)
IsFailureDiagnostic(s) ==
    Len(s) >= 18 /\ SubSeq(s, 1, 18) = "Mock server error:"
HasFailed == \E n \in 1..Len(stderr) : IsFailureDiagnostic(stderr[n])

C14_FailureStopsTheLoop ==
    /\ [](HasFailed =>
            /\ pc = "failed"
            /\ Len(consumed) > 0
            /\ AnswersOf(Len(consumed)) = {}
            /\ stdout = ResponsesTo(SubSeq(consumed, 1, Len(consumed) - 1)))
    /\ [][~HasFailed]_vars

C14_Witness ==
    /\ HasFailed
    /\ Len(consumed) = 2
    /\ IsCallLine(consumed[1])
    /\ Len(stdout) = 1
    /\ IsObjectLine(consumed[2])

(***************************************************************************)
(* C17. An output line whose id is null is a parse-error response: an      *)
(* error response with code -32700, written for a line that failed to      *)
(* parse.  Every other output line answers a line that decoded to an       *)
(* object and carries that object's id, which is not null.                 *)
(***************************************************************************)
IsParseErrorResponse(r) ==
    /\ IsErrorResponse(r)
    /\ r.d.id = None
    /\ r.d.error.d.code = Num(-32700)

C17_NullIdOnlyOnParseError ==
    \A k \in 1..Len(stdout) :
        /\ "id" \in DOMAIN stdout[k].d
        /\ stdout[k].d.id = None =>
               /\ IsParseErrorResponse(stdout[k])
               /\ IsGarbageLine(consumed[log[k].src])
        /\ ~IsParseErrorResponse(stdout[k]) =>
               /\ stdout[k].d.id # None
               /\ IsObjectLine(consumed[log[k].src])
               /\ stdout[k].d.id = IdOf(consumed[log[k].src])

C17_Witness ==
    /\ Len(stdout) = 2
    /\ IsParseErrorResponse(stdout[1])
    /\ IsErrorResponse(stdout[2])
    /\ stdout[2].d.id = Str("a")
    /\ IdOf(consumed[2]) = Str("a")

(***************************************************************************)
(* C19. After startup no step changes responses, errors, delay_seconds or  *)
(* hang_forever, and the server keeps no per-request state: what is        *)
(* written for a line that is behind the loop is what process_request      *)
(* makes of that line and the configuration alone (one line, or none),     *)
(* whatever lines were processed before it.                                *)
(***************************************************************************)
C19_ConfigurationFrozen ==
    /\ [][pc # "start" =>
             UNCHANGED <<responses, errors, delay_seconds, hang_forever>>]_vars
    /\ [](\A i \in 1..Len(Processed) :
            IF ResponseTo(consumed[i]) = NoResponse
            THEN AnswersOf(i) = {}
            ELSE \E k \in 1..Len(stdout) :
                    /\ AnswersOf(i) = {k}
                    /\ stdout[k] = ResponseTo(consumed[i]))

C19_Witness ==
    /\ Len(consumed) = 2
    /\ consumed[1] = consumed[2]
    /\ Len(stdout) = 2
    /\ stdout[1] = stdout[2]
    /\ IsResultResponse(stdout[1])
    /\ errors # EmptyDict

(***************************************************************************)
(* C15. With delay_seconds > 0, time.sleep is called exactly once for      *)
(* every line that decodes to a request object, call or notification, and  *)
(* the call is over when the notification check is reached; it is never    *)
(* called for a blank line or for a line that does not decode to a request *)
(* object.  A response to a line read after a notification is therefore    *)
(* written at least the full delay after the notification was read, plus   *)
(* the delay of every request object read since.                           *)
(***************************************************************************)
\* The delay of line i is over: the loop is past time.sleep for it.
PastDelay(i) ==
    \/ i < Len(consumed)
    \/ line = NoText
    \/ pc \in {"resolve", "returned"}
ObjectLinesBetween(i, j) ==
    {n \in i..j : IsObjectLine(consumed[n])}

C15_DelayOncePerDecodedLine ==
    delay_seconds > 0 =>
        /\ Len(trace) = Len(consumed)
        /\ \A i \in 1..Len(consumed) :
            /\ trace[i].slept \in {0, 1}
            /\ ~IsObjectLine(consumed[i]) => trace[i].slept = 0
            /\ (IsObjectLine(consumed[i]) /\ PastDelay(i)) => trace[i].slept = 1
            /\ (i = Len(consumed) /\ pc \in {"process", "sleep"}) =>
                   trace[i].slept = 0
        /\ \A k \in 1..Len(stdout) :
            \A i \in 1..(log[k].src - 1) :
                IsNotificationLine(consumed[i]) =>
                    log[k].written_at >=
                        trace[i].read_at + delay_seconds *
                            Cardinality(ObjectLinesBetween(i, log[k].src))

\* A notification, then a line that fails to parse: the parse-error response
\* is written the full delay after the notification was read.
C15_Witness ==
    /\ delay_seconds > 0
    /\ Len(consumed) = 2
    /\ IsNotificationLine(consumed[1])
    /\ IsGarbageLine(consumed[2])
    /\ trace[1].slept = 1
    /\ trace[2].slept = 0
    /\ Len(stdout) = 1
    /\ log[1].src = 2
    /\ log[1].written_at = trace[1].read_at + delay_seconds

(***************************************************************************)
(* C18. In the serving loop, with a finite delay, once the client has      *)
(* closed the input the process eventually terminates: normally, unless an *)
(* internal failure or an interrupt ends it first.  When it has terminated *)
(* normally, every line written before the close has been taken and        *)
(* processed: the pipe is empty, no line is in the loop, and stdout holds  *)
(* the responses to all the lines, in order.                               *)
(***************************************************************************)
C18_EndOfStreamTerminates ==
    /\ [](pc = "exited" =>
            /\ closed
            /\ pending = <<>>
            /\ line = NoText
            /\ stdout = ResponsesTo(consumed))
    /\ (closed /\ pc \in ServingPcs) ~>
           (pc = "exited" \/ HasFailed \/ pc = "interrupted")

C18_Witness ==
    /\ pc = "exited"
    /\ closed
    /\ delay_seconds > 0
    /\ Len(consumed) = 2
    /\ Len(stdout) = 2
    /\ clock = 2 * delay_seconds
====
